---- MODULE Spec2Model ----
(***************************************************************************)
(* Device/connection subsystem of the warehouse backend                    *)
(* (src/app/routers/raspberry_pi.py): the in-memory ConnectionManager, the *)
(* device table behind it, its CRUD endpoints, the /command dispatch       *)
(* endpoint and the per-device WebSocket handler; and the video pipeline   *)
(* (src/app/routers/video.py, src/video_processor.py): the thread that     *)
(* pulls the camera stream and cuts frames out of it, the annotator with   *)
(* its product lookup and cache, the viewers' generators and the status    *)
(* endpoint.                                                               *)
(*                                                                         *)
(* Scheduling: async handlers run on one event loop and interleave only at *)
(* their awaits; sync endpoints run in worker threads and touch only the   *)
(* database, one statement at a time.  Each action below is one such       *)
(* atomic stretch of code.                                                 *)
(***************************************************************************)
EXTENDS Integers, Sequences, FiniteSets, TLC

\* ---------------------------------------------------------------- bounds
MaxSockets == 2        \* connection attempts (WebSocket objects) per run
MaxRows == 2           \* rows ever inserted in raspberry_pi_devices
MaxTime == 2           \* readings of datetime.utcnow() that can differ
MaxInbox == 1          \* frames a peer has sent that the handler has not read
MaxHeartbeats == 1     \* heartbeat frames handled on one socket
MaxIgnored == 1       \* ignored frames one handler reads
MaxDispatch == 1       \* command frames written to one socket
MaxPayload == 1        \* image bytes between the markers of one frame
MaxChunk == 10         \* bytes in one chunk of iter_content
MaxConnects == 2       \* requests.get calls of the ingestor
MaxFaults == 1         \* exceptions raised inside the ingestor's try block
MaxCalls == 2          \* product lookups for one code
MaxViewers == 2        \* requests for the feed
MaxDelivered == 1      \* chunks one viewer gets to its client
MaxHandles == 3        \* cv2.VideoCapture objects that come up opened
MaxWViewers == 2       \* requests for the feed of webcam.py

DeviceIds == {"rpi-7", "rpi-8"}
Sockets == 1..MaxSockets
None == 0              \* absent dict entry / NULL column / no socket
IgnoredKinds == {"scan_result", "sensor_data", "other"}
Null == "null"        \* an Optional request field, or a nullable column, left unset
Names == {"dock"}     \* labels (name, ip_address, location) given at registration
NewNames == {"gate"}  \* labels given in an update request
Flags == {"true", "false"}   \* values of the is_online field of an update request

VARIABLES
    devices,             \* table raspberry_pi_devices, by device_id
    nextPk,              \* next value of the serial primary key
    now,                 \* datetime.utcnow()
    active_connections,  \* ConnectionManager.active_connections
    pc,                  \* position of each socket's websocket_endpoint call
    wsDev,               \* its device_id path parameter
    wsRow,               \* primary key of the row its `device` object is bound to
    wsLoaded,            \* is_online as loaded by its query, until first commit
    peerOpen,            \* the remote end has not closed the socket
    inbox,               \* frames sent by the peer that the handler has not read
    ignored,             \* frames the running handler has read and ignored
    heartbeats,          \* heartbeat frames the handler has received
    malformed,           \* malformed frames the handler has received
    acks,                \* send_json calls with a heartbeat_ack, per socket
    cmds,                \* send_json calls with a command, per socket
    closeCalls,          \* websocket.close() calls made by the code
    response,            \* outcome of the latest POST /command
    lastRegistered       \* history: socket most recently installed per id

\* the video pipeline: src/app/routers/video.py, src/video_processor.py
VARIABLES
    variant,             \* which of the two programs runs the pipeline
    ingPc,               \* position of the fetch_and_process_stream thread
    connects,            \* requests.get calls made so far
    faults,              \* exceptions caught by the thread's except clause
    sent,                \* history: the frames the camera put in the open response
    rest,                \* bytes of the response that iter_content has not yielded
    bytes_data,          \* the reassembly buffer
    emitted,             \* history: jpg_data decoded from the open response
    dropped,             \* history: jpg_data of the open response that did not decode
    pending,             \* the frame process_frame is working on
    current_frame,       \* the latest annotated frame: <<image, overlays>>
    product_cache,       \* dict product_cache, by code
    products,            \* table products, by qr_code
    calls,               \* history: lookups started, by code
    lookups,             \* history: database / API queries made, by code
    raised,              \* history: the latest query raised
    stream_running,      \* the module flag of video.py
    todo,                \* process_frame: codes of the frame not yet resolved
    overlays,            \* process_frame: texts drawn on the frame so far
    product_name,        \* what the latest lookup returned
    frame_lock,          \* who holds frame_lock
    status,              \* the latest answer of GET /video/status, if any
    vpc,                 \* where each generate_frames generator is
    clientOpen,          \* the viewer's client is still there
    vframe,              \* the viewer's copy of the slot
    delivered,           \* history: chunks the viewer's client has taken
    started,             \* history: threads of the ingestor started so far
    lock_order           \* history: pairs <<held, taken>> of locks taken while holding another

\* the webcam source: src/webcam.py
VARIABLES
    camera,              \* the global camera: a handle, or None
    handle,              \* what has become of each cv2.VideoCapture object
    plugged,             \* a camera device is there to be opened
    wpc,                 \* where each generate_frames generator of webcam.py is
    wcam,                \* its local cam
    wtmp,                \* the cam of the get_camera call it is in
    wfirst               \* that call is the one before the streaming loop

deviceVars == <<devices, nextPk, now, active_connections, pc, wsDev, wsRow,
                wsLoaded, peerOpen, inbox, ignored, heartbeats, malformed, acks,
                cmds, closeCalls, response, lastRegistered>>

videoVars == <<variant, ingPc, connects, faults, sent, rest, bytes_data, emitted,
               dropped,
               pending, current_frame, product_cache, products, calls, lookups,
               raised, stream_running, todo, overlays, product_name,
               frame_lock, status, vpc, clientOpen, vframe, delivered, started,
               lock_order>>

webcamVars == <<camera, handle, plugged, wpc, wcam, wtmp, wfirst>>

vars == <<deviceVars, videoVars, webcamVars>>

dbVars == <<devices, nextPk>>
wsVars == <<pc, wsDev, wsRow, wsLoaded>>
peerVars == <<peerOpen, inbox, ignored>>
outVars == <<heartbeats, malformed, acks, cmds, closeCalls, response>>

NoRow == [pk |-> None, name |-> Null, is_online |-> FALSE, last_seen |-> None]

Response(d, res, s) == [dev |-> d, res |-> res, sock |-> s]

Variants == {"router", "standalone"}
Codes == {"PROD-1", "PROD-2"}    \* payloads of the optical codes
ProductNames == {"Bolt", "Nut"}  \* values of products.name

\* ---------------------------------------------------------------- webcam
Handles == 1..MaxHandles
WViewers == 1..MaxWViewers

\* module level of webcam.py: camera = None, and no request yet
WebcamInit ==
    /\ camera = None
    /\ handle = [h \in Handles |-> "unused"]
    /\ plugged = TRUE
    /\ wpc = [v \in WViewers |-> "idle"]
    /\ wcam = [v \in WViewers |-> None]
    /\ wtmp = [v \in WViewers |-> None]
    /\ wfirst = [v \in WViewers |-> TRUE]

\* module level of video.py (lines 23-30) and video_processor.py (22-27);
\* no thread is running yet
VideoInit ==
    /\ variant = "unset"
    /\ ingPc = "unstarted"
    /\ stream_running = FALSE
    /\ todo = <<>>
    /\ overlays = <<>>
    /\ product_name = Null
    /\ frame_lock = <<>>
    /\ status = <<>>
    /\ vpc = [v \in 1..MaxViewers |-> "idle"]
    /\ clientOpen = [v \in 1..MaxViewers |-> TRUE]
    /\ vframe = [v \in 1..MaxViewers |-> <<>>]
    /\ delivered = [v \in 1..MaxViewers |-> 0]
    /\ started = 0
    /\ lock_order = {}
    /\ connects = 0
    /\ faults = 0
    /\ sent = <<>>
    /\ rest = <<>>
    /\ bytes_data = <<>>
    /\ emitted = <<>>
    /\ dropped = 0
    /\ pending = <<>>
    /\ current_frame = <<>>
    /\ product_cache = [c \in Codes |-> Null]
    /\ products = [c \in Codes |-> Null]
    /\ calls = [c \in Codes |-> 0]
    /\ lookups = [c \in Codes |-> 0]
    /\ raised = FALSE

Init ==
    /\ VideoInit
    /\ WebcamInit
    /\ devices = [d \in DeviceIds |-> NoRow]
    /\ nextPk = 1
    /\ now = 1
    /\ active_connections = [d \in DeviceIds |-> None]
    /\ pc = [s \in Sockets |-> "idle"]
    /\ wsDev = [s \in Sockets |-> "rpi-7"]
    /\ wsRow = [s \in Sockets |-> None]
    /\ wsLoaded = [s \in Sockets |-> FALSE]
    /\ peerOpen = [s \in Sockets |-> TRUE]
    /\ inbox = [s \in Sockets |-> 0]
    /\ ignored = [s \in Sockets |-> 0]
    /\ heartbeats = [s \in Sockets |-> 0]
    /\ malformed = [s \in Sockets |-> 0]
    /\ acks = [s \in Sockets |-> 0]
    /\ cmds = [s \in Sockets |-> 0]
    /\ closeCalls = [s \in Sockets |-> 0]
    /\ response = Response("rpi-7", "none", None)
    /\ lastRegistered = [d \in DeviceIds |-> None]

\* ------------------------------------------------------ ConnectionManager
\* connect as it would be if an entry already present were kept
connect_keep_first(conns, d, s) ==
    IF conns[d] # None THEN conns ELSE [conns EXCEPT ![d] = s]

\* self.active_connections[device_id] = websocket  (after websocket.accept())
connect(conns, d, s) == [conns EXCEPT ![d] = s]

\* disconnect as it would be if it emptied the map
disconnect_clears_all(conns, d) == [e \in DeviceIds |-> None]

\* disconnect as it would be if the entry were left in the map
disconnect_keeps_entry(conns, d) == conns

\* if device_id in self.active_connections: del self.active_connections[device_id]
disconnect(conns, d) == [conns EXCEPT ![d] = None]

\* return device_id in self.active_connections
is_connected(d) == active_connections[d] # None

\* ------------------------------------------------------------- database
Registered(d) == devices[d].pk # None

\* The handler's `device` object is bound to the primary key it was loaded
\* with; flushing it when that row is gone raises StaleDataError.
RowExists(s) == wsRow[s] # None /\ devices[wsDev[s]].pk = wsRow[s]

\* a socket on which a frame written by the server can still be delivered
Live(s) == pc[s] = "recv" /\ peerOpen[s]

\* ------------------------------------------------------- registry CRUD
\* POST /devices.  A duplicate id is answered 400 and changes nothing.
register_device(d, nm) ==
    /\ ~Registered(d)
    /\ nextPk <= MaxRows
    /\ devices' = [devices EXCEPT ![d] =
           [pk |-> nextPk, name |-> nm, is_online |-> FALSE, last_seen |-> None]]
    /\ nextPk' = nextPk + 1
    /\ UNCHANGED <<now, active_connections, wsVars, peerVars, outVars,
                   lastRegistered>>
    /\ UNCHANGED <<videoVars, webcamVars>>

\* get_devices / get_device, lines 91 and 113: device.is_online is overwritten
\* on the loaded objects for the response; the session is closed without a
\* commit, so the rows stay as they are.
after_get(rows, d) == rows

\* GET /devices/{device_id}.  An unknown id is answered 404.
get_device(d) ==
    /\ Registered(d)
    /\ devices' = after_get(devices, d)
    /\ UNCHANGED <<nextPk, now, active_connections, wsVars, peerVars, outVars,
                   lastRegistered>>
    /\ UNCHANGED <<videoVars, webcamVars>>

\* the rows GET /devices selects, lines 82-87
selected(online_only) ==
    {d \in DeviceIds : Registered(d) /\ (online_only => devices[d].is_online)}

RECURSIVE after_list(_, _)
after_list(rows, ds) ==
    IF ds = {} THEN rows
    ELSE LET d == CHOOSE x \in ds : TRUE
         IN  after_list(after_get(rows, d), ds \ {d})

\* GET /devices
get_devices(online_only) ==
    /\ devices' = after_list(devices, selected(online_only))
    /\ UNCHANGED <<nextPk, now, active_connections, wsVars, peerVars, outVars,
                   lastRegistered>>
    /\ UNCHANGED <<videoVars, webcamVars>>

\* update_device as it would be if it copied the request's is_online too
updated_row_copies_flag(row, nm, flag) ==
    [row EXCEPT !.name = IF nm # Null THEN nm ELSE @,
                !.is_online = IF flag # Null THEN flag = "true" ELSE @]

\* update_device, lines 135-140: only the label columns are copied from the
\* request; its is_online field is never read.
updated_row(row, nm, flag) ==
    [row EXCEPT !.name = IF nm # Null THEN nm ELSE @]

\* PUT /devices/{device_id}.  An unknown id is answered 404 and changes
\* nothing.
update_device(d, nm, flag) ==
    /\ Registered(d)
    /\ devices' = [devices EXCEPT ![d] = updated_row(@, nm, flag)]
    /\ UNCHANGED <<nextPk, now, active_connections, wsVars, peerVars, outVars,
                   lastRegistered>>
    /\ UNCHANGED <<videoVars, webcamVars>>

\* DELETE /devices/{device_id}.  An unknown id is answered 404 and changes
\* nothing.
delete_device(d) ==
    /\ Registered(d)
    /\ devices' = [devices EXCEPT ![d] = NoRow]
    /\ UNCHANGED <<nextPk, now, active_connections, wsVars, peerVars, outVars,
                   lastRegistered>>
    /\ UNCHANGED <<videoVars, webcamVars>>

\* ------------------------------------------------- websocket_endpoint
\* The handler of s has ended: the server closes the socket, and what the
\* handler held is dropped.
Ended(s, how) ==
    /\ pc' = [pc EXCEPT ![s] = how]
    /\ wsRow' = [wsRow EXCEPT ![s] = None]
    /\ wsLoaded' = [wsLoaded EXCEPT ![s] = FALSE]
    /\ peerOpen' = [peerOpen EXCEPT ![s] = FALSE]
    /\ inbox' = [inbox EXCEPT ![s] = 0]
    /\ ignored' = [ignored EXCEPT ![s] = 0]

\* websocket_endpoint as it would be if it went on to accept without the
\* registry query's verdict
websocket_open_unverified(s, d) ==
    /\ pc[s] = "idle"
    /\ \A t \in Sockets : t < s => pc[t] # "idle"
    /\ wsDev' = [wsDev EXCEPT ![s] = d]
    /\ pc' = [pc EXCEPT ![s] = "accepting"]
    /\ wsRow' = [wsRow EXCEPT ![s] = devices[d].pk]
    /\ wsLoaded' = [wsLoaded EXCEPT ![s] = devices[d].is_online]
    /\ UNCHANGED <<closeCalls, peerVars>>
    /\ UNCHANGED <<dbVars, now, active_connections, heartbeats, malformed, acks,
                   cmds, response, lastRegistered>>
    /\ UNCHANGED <<videoVars, webcamVars>>

\* Lines 225-231: the registry query; an unknown id is closed with 4004.
\* Sockets are numbered in the order in which they are opened.
websocket_open(s, d) ==
    /\ pc[s] = "idle"
    /\ \A t \in Sockets : t < s => pc[t] # "idle"
    /\ wsDev' = [wsDev EXCEPT ![s] = d]
    /\ IF Registered(d)
       THEN /\ pc' = [pc EXCEPT ![s] = "accepting"]
            /\ wsRow' = [wsRow EXCEPT ![s] = devices[d].pk]
            /\ wsLoaded' = [wsLoaded EXCEPT ![s] = devices[d].is_online]
            /\ UNCHANGED <<closeCalls, peerVars>>
       ELSE /\ Ended(s, "rejected")
            /\ closeCalls' = [closeCalls EXCEPT ![s] = @ + 1]
    /\ UNCHANGED <<dbVars, now, active_connections, heartbeats, malformed, acks,
                   cmds, response, lastRegistered>>
    /\ UNCHANGED <<videoVars, webcamVars>>

\* Lines 236-238: device.is_online = True; device.last_seen = utcnow(); commit.
\* An attribute set to the value it was loaded with is no change, so the
\* UPDATE carries is_online only when the query loaded it as false.
mark_online(rows, s) ==
    [rows EXCEPT ![wsDev[s]] =
        [pk |-> @.pk,
         name |-> @.name,
         is_online |-> IF wsLoaded[s] THEN @.is_online ELSE TRUE,
         last_seen |-> now]]

\* Lines 233-238: manager.connect (accept, then install), then the status
\* update.  The commit is outside the try: with the row gone it escapes.
websocket_accept(s) ==
    /\ pc[s] = "accepting"
    /\ LET d == wsDev[s]
       IN  /\ active_connections' = connect(active_connections, d, s)
           /\ lastRegistered' = [lastRegistered EXCEPT ![d] = s]
           /\ IF RowExists(s)
              THEN /\ devices' = mark_online(devices, s)
                   /\ pc' = [pc EXCEPT ![s] = "recv"]
                   /\ wsLoaded' = [wsLoaded EXCEPT ![s] = FALSE]
                   /\ UNCHANGED <<wsRow, peerVars>>
              ELSE /\ UNCHANGED devices
                   /\ Ended(s, "crashed")
    /\ UNCHANGED <<nextPk, now, wsDev, outVars>>
    /\ UNCHANGED <<videoVars, webcamVars>>

\* websocket.accept() on a socket the peer has already dropped may raise
\* before anything is installed.
websocket_accept_fail(s) ==
    /\ pc[s] = "accepting"
    /\ ~peerOpen[s]
    /\ Ended(s, "crashed")
    /\ UNCHANGED <<dbVars, now, active_connections, wsDev, outVars,
                   lastRegistered>>
    /\ UNCHANGED <<videoVars, webcamVars>>

\* Lines 261-265: except WebSocketDisconnect, the row as the commit leaves it
except_WebSocketDisconnect(rows, s) ==
    [rows EXCEPT ![wsDev[s]] =
        [pk |-> @.pk, name |-> @.name, is_online |-> FALSE, last_seen |-> now]]

\* Lines 266-269: except Exception, the row as the commit leaves it
except_Exception(rows, s) ==
    [rows EXCEPT ![wsDev[s]] =
        [pk |-> @.pk, name |-> @.name, is_online |-> FALSE, last_seen |-> @.last_seen]]

\* Either except branch: manager.disconnect first, then the row update and
\* its commit, which raises out of the handler when the row is gone.
Terminate(rows, s, branch) ==
    /\ active_connections' = disconnect(active_connections, wsDev[s])
    /\ IF RowExists(s)
       THEN /\ devices' = IF branch = "WebSocketDisconnect"
                          THEN except_WebSocketDisconnect(rows, s)
                          ELSE except_Exception(rows, s)
            /\ Ended(s, "done")
       ELSE /\ devices' = rows
            /\ Ended(s, "crashed")

\* Lines 243-250: a heartbeat frame
heartbeat(s) ==
    /\ pc[s] = "recv"
    /\ inbox[s] > 0
    /\ heartbeats[s] < MaxHeartbeats
    /\ heartbeats' = [heartbeats EXCEPT ![s] = @ + 1]
    /\ LET d == wsDev[s]
           rows == [devices EXCEPT ![d].last_seen = now]
       IN  IF ~RowExists(s)
           THEN \* line 249 raises StaleDataError, caught at line 266
                /\ Terminate(devices, s, "Exception")
                /\ UNCHANGED acks
           ELSE /\ acks' = [acks EXCEPT ![s] = @ + 1]
                /\ \/ \* the frame is written, or dropped unnoticed when the
                      \* peer has gone
                      /\ devices' = rows
                      /\ inbox' = [inbox EXCEPT ![s] = @ - 1]
                      /\ UNCHANGED <<active_connections, pc, wsRow, wsLoaded,
                                     peerOpen, ignored>>
                   \/ \* send_json to a peer that has gone raises: which
                      \* exception depends on the server stack
                      /\ ~peerOpen[s]
                      /\ \/ Terminate(rows, s, "WebSocketDisconnect")
                         \/ Terminate(rows, s, "Exception")
    /\ UNCHANGED <<nextPk, now, wsDev, malformed, cmds, closeCalls, response,
                   lastRegistered>>
    /\ UNCHANGED <<videoVars, webcamVars>>

\* the read loop as it would be if an unhandled type raised
ignored_message_ends_loop(s, kind) ==
    /\ pc[s] = "recv"
    /\ inbox[s] > 0
    /\ kind \in IgnoredKinds
    /\ Terminate(devices, s, "Exception")
    /\ UNCHANGED <<nextPk, now, wsDev, outVars, lastRegistered>>
    /\ UNCHANGED <<videoVars, webcamVars>>

\* Lines 252-259: scan_result, sensor_data, or a type no branch matches
ignored_message(s, kind) ==
    /\ pc[s] = "recv"
    /\ inbox[s] > 0
    /\ kind \in IgnoredKinds
    /\ ignored[s] < MaxIgnored
    /\ inbox' = [inbox EXCEPT ![s] = @ - 1]
    /\ ignored' = [ignored EXCEPT ![s] = @ + 1]
    /\ UNCHANGED <<dbVars, now, active_connections, wsVars, peerOpen, outVars,
                   lastRegistered>>
    /\ UNCHANGED <<videoVars, webcamVars>>

\* the read loop as it would be with the parse guarded inside the loop
malformed_message_dropped(s) ==
    /\ pc[s] = "recv"
    /\ inbox[s] > 0
    /\ malformed' = [malformed EXCEPT ![s] = @ + 1]
    /\ inbox' = [inbox EXCEPT ![s] = @ - 1]
    /\ UNCHANGED <<dbVars, now, active_connections, wsVars, peerOpen, ignored,
                   heartbeats, acks, cmds, closeCalls, response, lastRegistered>>
    /\ UNCHANGED <<videoVars, webcamVars>>

\* Line 244/247: json.loads or message.get raises on a malformed payload
malformed_message(s) ==
    /\ pc[s] = "recv"
    /\ inbox[s] > 0
    /\ malformed' = [malformed EXCEPT ![s] = @ + 1]
    /\ Terminate(devices, s, "Exception")
    /\ UNCHANGED <<nextPk, now, wsDev, heartbeats, acks, cmds, closeCalls,
                   response, lastRegistered>>
    /\ UNCHANGED <<videoVars, webcamVars>>

\* Line 243: receive_text raises WebSocketDisconnect once the peer has
\* closed and every frame it sent has been read
receive_disconnect(s) ==
    /\ pc[s] = "recv"
    /\ inbox[s] = 0
    /\ ~peerOpen[s]
    /\ Terminate(devices, s, "WebSocketDisconnect")
    /\ UNCHANGED <<nextPk, now, wsDev, outVars, lastRegistered>>
    /\ UNCHANGED <<videoVars, webcamVars>>

\* ------------------------------------------------------------ the peers
\* The device sends a frame; what it holds is read off when it is received.
peer_send(s) ==
    /\ pc[s] = "recv"
    /\ peerOpen[s]
    /\ inbox[s] < MaxInbox
    /\ inbox' = [inbox EXCEPT ![s] = @ + 1]
    /\ UNCHANGED <<dbVars, now, active_connections, wsVars, peerOpen, ignored,
                   outVars, lastRegistered>>
    /\ UNCHANGED <<videoVars, webcamVars>>

peer_close(s) ==
    /\ pc[s] \in {"accepting", "recv"}
    /\ peerOpen[s]
    /\ peerOpen' = [peerOpen EXCEPT ![s] = FALSE]
    /\ UNCHANGED <<dbVars, now, active_connections, wsVars, inbox, ignored,
                   outVars, lastRegistered>>
    /\ UNCHANGED <<videoVars, webcamVars>>

\* ----------------------------------------------------- command dispatch
\* ConnectionManager.send_command, lines 32-33: the socket written to
manager_target(conns, d) == conns[d]

\* send_command as it would be with is_connected tested before the registry
send_command_connection_first(d) ==
    /\ IF ~is_connected(d)
       THEN /\ UNCHANGED cmds
            /\ response' = Response(d, "not_connected", None)
       ELSE IF ~Registered(d)
       THEN /\ UNCHANGED cmds
            /\ response' = Response(d, "http_404", None)
       ELSE LET ws == manager_target(active_connections, d) IN
            /\ cmds[ws] < MaxDispatch
            /\ cmds' = [cmds EXCEPT ![ws] = @ + 1]
            /\ \/ response' = Response(d, "sent", ws)
               \/ /\ ~Live(ws)
                  /\ response' = Response(d, "raised", ws)
    /\ UNCHANGED <<dbVars, now, active_connections, wsVars, peerVars,
                   heartbeats, malformed, acks, closeCalls, lastRegistered>>
    /\ UNCHANGED <<videoVars, webcamVars>>

\* send_command as it would be if a failed write dropped the connection and
\* marked the device offline
send_command_drops_on_failure(d) ==
    /\ IF ~Registered(d)
       THEN /\ UNCHANGED <<cmds, devices, active_connections>>
            /\ response' = Response(d, "http_404", None)
       ELSE IF ~is_connected(d)
       THEN /\ UNCHANGED <<cmds, devices, active_connections>>
            /\ response' = Response(d, "not_connected", None)
       ELSE LET ws == manager_target(active_connections, d) IN
            /\ cmds[ws] < MaxDispatch
            /\ cmds' = [cmds EXCEPT ![ws] = @ + 1]
            /\ IF Live(ws)
               THEN /\ response' = Response(d, "sent", ws)
                    /\ UNCHANGED <<devices, active_connections>>
               ELSE /\ response' = Response(d, "failed", ws)
                    /\ active_connections' = disconnect(active_connections, d)
                    /\ devices' = [devices EXCEPT ![d].is_online = FALSE]
    /\ UNCHANGED <<nextPk, now, wsVars, peerVars, heartbeats, malformed, acks,
                   closeCalls, lastRegistered>>
    /\ UNCHANGED <<videoVars, webcamVars>>

\* POST /command, lines 176-214.  No await separates the registry query,
\* is_connected and the write, so the call is one step.
send_command(d) ==
    /\ IF ~Registered(d)
       THEN /\ UNCHANGED cmds
            /\ response' = Response(d, "http_404", None)
       ELSE IF ~is_connected(d)
       THEN /\ UNCHANGED cmds
            /\ response' = Response(d, "not_connected", None)
       ELSE LET ws == manager_target(active_connections, d) IN
            IF ws = None
            THEN /\ UNCHANGED cmds
                 /\ response' = Response(d, "failed", None)
            ELSE /\ cmds[ws] < MaxDispatch
                 /\ cmds' = [cmds EXCEPT ![ws] = @ + 1]
                 /\ \/ \* the frame is written, or dropped unnoticed when
                       \* the socket can no longer be written
                       response' = Response(d, "sent", ws)
                    \/ \* send_json raises out of the endpoint
                       /\ ~Live(ws)
                       /\ response' = Response(d, "raised", ws)
    /\ UNCHANGED <<dbVars, now, active_connections, wsVars, peerVars,
                   heartbeats, malformed, acks, closeCalls, lastRegistered>>
    /\ UNCHANGED <<videoVars, webcamVars>>

\* ------------------------------------------------------------------ time
Tick ==
    /\ now < MaxTime
    /\ now' = now + 1
    /\ UNCHANGED <<dbVars, active_connections, wsVars, peerVars, outVars,
                   lastRegistered>>
    /\ UNCHANGED <<videoVars, webcamVars>>

\* The connection manager with registration, deregistration and dispatch.
\* The two GET handlers and the PUT handler are left to RegistryNext: the
\* former change no variable, the latter only the label column, which no
\* other handler reads.
Next ==
    \/ \E d \in DeviceIds : register_device(d, Null)
    \/ \E d \in DeviceIds : delete_device(d)
    \/ \E s \in Sockets, d \in DeviceIds : websocket_open(s, d)
    \/ \E s \in Sockets : websocket_accept(s)
    \/ \E s \in Sockets : websocket_accept_fail(s)
    \/ \E s \in Sockets : heartbeat(s)
    \/ \E s \in Sockets, kind \in IgnoredKinds : ignored_message(s, kind)
    \/ \E s \in Sockets : malformed_message(s)
    \/ \E s \in Sockets : receive_disconnect(s)
    \/ \E s \in Sockets : peer_send(s)
    \/ \E s \in Sockets : peer_close(s)
    \/ \E d \in DeviceIds : send_command(d)
    \/ Tick

Spec == Init /\ [][Next]_vars

\* The whole CRUD surface of the registry next to the connection handlers;
\* POST /command, which writes no row, is left to Next.
RegistryNext ==
    \/ \E d \in DeviceIds, nm \in Names \cup {Null} : register_device(d, nm)
    \/ \E d \in DeviceIds : get_device(d)
    \/ \E online_only \in BOOLEAN : get_devices(online_only)
    \/ \E d \in DeviceIds, nm \in NewNames \cup {Null}, flag \in Flags \cup {Null} :
           update_device(d, nm, flag)
    \/ \E d \in DeviceIds : delete_device(d)
    \/ \E s \in Sockets, d \in DeviceIds : websocket_open(s, d)
    \/ \E s \in Sockets : websocket_accept(s)
    \/ \E s \in Sockets : websocket_accept_fail(s)
    \/ \E s \in Sockets : heartbeat(s)
    \/ \E s \in Sockets, kind \in IgnoredKinds : ignored_message(s, kind)
    \/ \E s \in Sockets : malformed_message(s)
    \/ \E s \in Sockets : receive_disconnect(s)
    \/ \E s \in Sockets : peer_send(s)
    \/ \E s \in Sockets : peer_close(s)
    \/ Tick

SpecRegistry == Init /\ [][RegistryNext]_vars

\* ======================================================= video pipeline
\* A byte is one of the two marker bytes' values or an image byte: an image
\* holding "a" shows the optical code PROD-1, one holding "c" shows PROD-2,
\* "b" shows none.
SOI == <<"ff", "d8">>        \* b'\xff\xd8'
EOI == <<"ff", "d9">>        \* b'\xff\xd9'
ImageBytes == {"a", "b", "c"}
StreamBytes == {"a", "b"}    \* image bytes of the frames of CameraStreams
StreamCodes == {"PROD-1"}    \* the codes those frames show

Payloads == UNION {[1..n -> StreamBytes] : n \in 1..MaxPayload}
Frame(p) == SOI \o p \o EOI
WellFormedFrames == {Frame(p) : p \in Payloads}
MaxFrame == Len(SOI) + MaxPayload + Len(EOI)

\* a reassembly buffer with room for two whole frames
BufferCap == 2 * MaxFrame

\* What the camera answers one requests.get with: two well-formed frames;
\* bytes that hold no marker; a pair of markers around nothing, alone or
\* before a well-formed frame; the tail of a frame before a whole frame.
CameraStreams ==
    {[sent |-> <<f, g>>, bytes |-> f \o g] : f, g \in WellFormedFrames}
    \cup {[sent |-> <<>>, bytes |-> [i \in 1..(BufferCap + 1) |-> "b"]]}
    \cup {[sent |-> <<>>, bytes |-> SOI \o EOI]}
    \cup {[sent |-> <<Frame(<<"b">>)>>, bytes |-> SOI \o EOI \o Frame(<<"b">>)]}
    \cup {[sent |-> <<Frame(<<"a">>)>>, bytes |-> EOI \o Frame(<<"a">>)]}

\* responses of one frame, for the runs with viewers
ViewerStreams ==
    {[sent |-> <<Frame(<<b>>)>>, bytes |-> Frame(<<b>>)] : b \in StreamBytes}

\* responses of one frame that shows no code, one code, or two codes
AnnotateStreams ==
    {[sent |-> <<Frame(p)>>, bytes |-> Frame(p)] :
        p \in {<<"b">>, <<"a">>, <<"a", "c">>}}

\* bytes.find(marker): the place of the first occurrence, counted from 1,
\* and 0 where Python gives -1
find(buf, marker) ==
    LET hits == {i \in 1..(Len(buf) - 1) :
                    buf[i] = marker[1] /\ buf[i + 1] = marker[2]}
    IN  IF hits = {} THEN 0 ELSE CHOOSE i \in hits : \A j \in hits : i <= j

\* cv2.imdecode(...) is not None: there is an image between the markers
imdecode(jpg) ==
    /\ Len(jpg) > Len(SOI) + Len(EOI)
    /\ \A i \in (Len(SOI) + 1)..(Len(jpg) - Len(EOI)) : jpg[i] \in ImageBytes

IsCodeByte(b) == b \in {"a", "c"}
CodeOf(b) == IF b = "a" THEN "PROD-1" ELSE "PROD-2"

\* every code the image shows, in the order of the image
codes_shown(jpg) ==
    LET marks == SelectSeq(jpg, IsCodeByte)
    IN  [i \in 1..Len(marks) |-> CodeOf(marks[i])]

\* The payloads process_frame gets from its detector.  pyzbar.decode
\* (video_processor.py line 62) returns every code; the detectAndDecode call
\* of video.py (line 63) returns one payload at most.
detect(var, jpg) ==
    LET all == codes_shown(jpg)
    IN  IF var = "router" /\ Len(all) > 1 THEN SubSeq(all, 1, 1) ELSE all

\* the cache after a query that found no product, as it would be if the
\* miss were remembered
after_miss_caches_code(cache, c) == [cache EXCEPT ![c] = c]

\* video.py line 54, video_processor.py line 53: a miss writes nothing
after_miss(cache, c) == cache

\* the cache after a query that found the product, as it would be if the
\* name were returned without being stored
after_hit_forgets(cache, c, name) == cache

\* video.py lines 47-49, video_processor.py lines 45-47
after_hit(cache, c, name) == [cache EXCEPT ![c] = name]

\* the text returned for a code without a product, as it would be if it
\* were left empty
fallback_blank(c) == Null

\* return qr_code: video.py line 54, video_processor.py line 53
fallback(c) == c

\* the texts on the frame, as they would be if only the first were drawn
draw_first_only(drawn, text) == IF drawn = <<>> THEN <<text>> ELSE drawn

\* cv2.putText of the text a lookup returned
draw(drawn, text) == Append(drawn, text)

\* The pairs <<held, taken>> of locks a lookup adds: video.py calls
\* process_frame, and with it the lookup's `with cache_lock`, inside its
\* `with frame_lock`; video_processor.py holds no lock around process_frame.
nested(var) == IF var = "router" THEN {<<"frame", "cache">>} ELSE {}

\* The codes of a frame are resolved one after the other.  The lookups
\* that the cache answers need no query: this is the state process_frame is
\* in when it has to stop for a query, or when it is done.
RECURSIVE resolve(_, _, _)
resolve(cs, drawn, cache) ==
    IF cs = <<>> \/ cache[Head(cs)] = Null
    THEN [todo |-> cs, overlays |-> drawn]
    ELSE resolve(Tail(cs), draw(drawn, cache[Head(cs)]), cache)

\* how often c is among the first n codes of cs
Occurrences(cs, n, c) == Cardinality({i \in 1..n : cs[i] = c})

\* the lookups begun while the codes cs are resolved until left is left:
\* one for each code drawn and one for the code the cache has missed
begun(cs, left, c) ==
    Occurrences(cs, Len(cs) - Len(left) + (IF left = <<>> THEN 0 ELSE 1), c)

\* where the thread goes when its try block raises, were the exception to
\* leave the loop
on_fault_reraises == "dead"

\* except Exception: print, time.sleep(2), and round the while loop again
on_fault == "backoff"

Free == <<>>                       \* frame_lock is not held
ByIngestor == <<"ingestor">>
ByViewer(v) == <<"viewer", v>>
Viewers == 1..MaxViewers
Placeholder == <<<<"waiting">>, <<>>>>   \* the "Waiting for camera stream..." image

ingVars == <<ingPc, stream_running, connects, faults, sent, rest, bytes_data,
             emitted, dropped, pending, todo, overlays, product_name, current_frame>>
cacheVars == <<product_cache, calls, lookups, raised>>
viewerVars == <<vpc, clientOpen, vframe, delivered>>

\* the test of start_stream_processor as it would be if it were always true
needs_thread_always(p) == TRUE

\* stream_thread is None or not stream_thread.is_alive()
needs_thread(p) == p \in {"unstarted", "dead"}

\* start_stream_processor, video.py lines 139-143: a thread is started when
\* none has been started or the one started is no longer alive
start_stream_processor(p) == IF needs_thread(p) THEN "started" ELSE p

\* The process comes up.  video_processor.py starts the thread in its
\* __main__ block (lines 266-267); video.py leaves it to the first request
\* for the feed.
launch(var) ==
    /\ variant = "unset"
    /\ variant' = var
    /\ ingPc' = IF var = "standalone" THEN start_stream_processor(ingPc) ELSE ingPc
    /\ started' = IF var = "standalone" THEN started + 1 ELSE started
    /\ UNCHANGED <<stream_running, connects, faults, sent, rest, bytes_data,
                   emitted, dropped, pending, todo, overlays, product_name,
                   current_frame, frame_lock, products, status, lock_order>>
    /\ UNCHANGED <<cacheVars, viewerVars, deviceVars, webcamVars>>

\* GET /video/feed (video.py 146-153) or GET /video_feed (video_processor.py
\* 208-218): the response is a generate_frames generator
video_feed(v) ==
    /\ variant # "unset"
    /\ vpc[v] = "idle"
    /\ \A u \in Viewers : u < v => vpc[u] # "idle"
    /\ vpc' = [vpc EXCEPT ![v] = "lock"]
    /\ ingPc' = IF variant = "router" THEN start_stream_processor(ingPc) ELSE ingPc
    /\ started' = IF variant = "router" /\ needs_thread(ingPc)
                  THEN started + 1 ELSE started
    /\ UNCHANGED <<variant, stream_running, connects, faults, sent, rest,
                   bytes_data, emitted, dropped, pending, todo, overlays,
                   product_name, current_frame, frame_lock, products, status,
                   lock_order, clientOpen, vframe, delivered>>
    /\ UNCHANGED <<cacheVars, deviceVars, webcamVars>>

\* the new thread runs the first statements of fetch_and_process_stream:
\* video.py line 93 sets stream_running, video_processor.py has no such flag
ingestor_enter ==
    /\ ingPc = "started"
    /\ ingPc' = "connecting"
    /\ stream_running' = (variant = "router")
    /\ UNCHANGED <<variant, connects, faults, sent, rest, bytes_data, emitted,
                   dropped, pending, todo, overlays, product_name, current_frame,
                   frame_lock, products, status, started, lock_order>>
    /\ UNCHANGED <<cacheVars, viewerVars, deviceVars, webcamVars>>

\* the buffer after requests.get, as it would be if it were carried over
\* from the response before
buffer_carried_over(buf) == buf

\* bytes_data = b'' at the head of the try block
buffer_at_connect(buf) == <<>>

\* requests.get(CAMERA_STREAM_URL, stream=True, timeout=10) returns;
\* bytes_data = b''
connect_stream(st) ==
    /\ ingPc = "connecting"
    /\ connects < MaxConnects
    /\ connects' = connects + 1
    /\ sent' = st.sent
    /\ rest' = st.bytes
    /\ bytes_data' = buffer_at_connect(bytes_data)
    /\ emitted' = <<>>
    /\ dropped' = 0
    /\ ingPc' = "streaming"
    /\ UNCHANGED <<variant, stream_running, faults, pending, todo, overlays,
                   product_name, current_frame, frame_lock, products, status, started, lock_order>>
    /\ UNCHANGED <<cacheVars, viewerVars, deviceVars, webcamVars>>

\* requests.get raises: the camera is unreachable or slow to answer
connect_fault ==
    /\ ingPc = "connecting"
    /\ connects < MaxConnects
    /\ faults < MaxFaults
    /\ connects' = connects + 1
    /\ faults' = faults + 1
    /\ ingPc' = on_fault
    /\ UNCHANGED <<variant, stream_running, sent, rest, bytes_data, emitted,
                   dropped, pending, todo, overlays, product_name, current_frame,
                   frame_lock, products, status, started, lock_order>>
    /\ UNCHANGED <<cacheVars, viewerVars, deviceVars, webcamVars>>

\* One turn of `for chunk in stream.iter_content(chunk_size=1024)` up to the
\* first query of a product lookup: the chunk is appended, the first start
\* and end markers are searched, at most one frame is cut out and decoded,
\* and process_frame resolves its codes as far as the cache answers.
\* video.py runs process_frame inside `with frame_lock` (lines 114-115), so
\* it holds the lock while a query is outstanding; video_processor.py takes
\* the lock for the assignment alone (lines 168-171).
read_chunk(k) ==
    /\ ingPc = "streaming"
    /\ k <= Len(rest)
    /\ rest' = SubSeq(rest, k + 1, Len(rest))
    /\ LET buf == bytes_data \o SubSeq(rest, 1, k)
           start == find(buf, SOI)
           end == find(buf, EOI)
           jpg_data == SubSeq(buf, start, end + 1)
           cs == detect(variant, jpg_data)
           r == resolve(cs, <<>>, product_cache)
       IN  IF ~(start # 0 /\ end # 0 /\ end > start)
           THEN /\ bytes_data' = buf
                /\ UNCHANGED <<ingPc, emitted, dropped, pending, todo, overlays,
                               product_name, current_frame, frame_lock, calls,
                               lock_order>>
           ELSE /\ bytes_data' = SubSeq(buf, end + 2, Len(buf))
                /\ IF ~imdecode(jpg_data)
                   THEN /\ dropped' = dropped + 1
                        /\ UNCHANGED <<ingPc, emitted, pending, todo, overlays,
                                       product_name, current_frame, frame_lock,
                                       calls, lock_order>>
                   ELSE /\ (variant = "router" \/ r.todo = <<>>) => frame_lock = Free
                        /\ UNCHANGED dropped
                        /\ lock_order' = IF cs = <<>> THEN lock_order
                                         ELSE lock_order \cup nested(variant)
                        /\ emitted' = Append(emitted, jpg_data)
                        /\ calls' = [c \in Codes |-> calls[c] + begun(cs, r.todo, c)]
                        /\ \A c \in Codes : calls'[c] <= MaxCalls
                        /\ product_name' =
                              IF r.overlays = <<>> THEN product_name
                              ELSE r.overlays[Len(r.overlays)]
                        /\ IF r.todo = <<>>
                           THEN /\ current_frame' = <<jpg_data, r.overlays>>
                                /\ UNCHANGED <<ingPc, pending, todo, overlays,
                                               frame_lock>>
                           ELSE /\ pending' = jpg_data
                                /\ todo' = r.todo
                                /\ overlays' = r.overlays
                                /\ ingPc' = "lookup"
                                /\ frame_lock' = IF variant = "router"
                                                 THEN ByIngestor ELSE Free
                                /\ UNCHANGED current_frame
    /\ UNCHANGED <<variant, stream_running, connects, faults, sent,
                   product_cache, products, lookups, raised, status, started>>
    /\ UNCHANGED <<viewerVars, deviceVars, webcamVars>>

\* get_product_name_from_db lines 42-54 / get_product_by_qr lines 37-53 after
\* the cache has missed: the query and the cache write when a product was
\* found; then process_frame goes on with the codes that are left, and the
\* frame is published when none is.  ok is false when the session or the
\* HTTP request raises, which the function catches.
external_lookup(ok) ==
    /\ ingPc = "lookup"
    /\ LET c == Head(todo)
           found == ok /\ products[c] # Null
           name == IF found THEN products[c] ELSE fallback(c)
           cache == IF found THEN after_hit(product_cache, c, products[c])
                             ELSE after_miss(product_cache, c)
           r == resolve(Tail(todo), draw(overlays, name), cache)
       IN  /\ lookups' = [lookups EXCEPT ![c] = @ + 1]
           /\ raised' = ~ok
           /\ lock_order' = IF found THEN lock_order \cup nested(variant)
                            ELSE lock_order
           /\ product_cache' = cache
           /\ calls' = [d \in Codes |-> calls[d] + begun(Tail(todo), r.todo, d)]
           /\ \A d \in Codes : calls'[d] <= MaxCalls
           /\ product_name' = r.overlays[Len(r.overlays)]
           /\ IF r.todo = <<>>
              THEN /\ variant = "standalone" => frame_lock = Free
                   /\ current_frame' = <<pending, r.overlays>>
                   /\ frame_lock' = Free
                   /\ pending' = <<>>
                   /\ todo' = <<>>
                   /\ overlays' = <<>>
                   /\ ingPc' = "streaming"
              ELSE /\ todo' = r.todo
                   /\ overlays' = r.overlays
                   /\ UNCHANGED <<ingPc, pending, current_frame, frame_lock>>
    /\ UNCHANGED <<variant, stream_running, connects, faults, sent, rest,
                   bytes_data, emitted, dropped, products, status, started>>
    /\ UNCHANGED <<viewerVars, deviceVars, webcamVars>>

\* the slot after a fault, as it would be if the except clause emptied it
slot_emptied_by_fault(slot) == <<>>

\* the except clause prints and sleeps; current_frame is not assigned
slot_after_fault(slot) == slot

\* iter_content raises: the connection broke or no byte came for 10 s
read_fault ==
    /\ ingPc = "streaming"
    /\ faults < MaxFaults
    /\ faults' = faults + 1
    /\ ingPc' = on_fault
    /\ sent' = <<>>
    /\ rest' = <<>>
    /\ emitted' = <<>>
    /\ dropped' = 0
    /\ current_frame' = slot_after_fault(current_frame)
    /\ UNCHANGED <<variant, stream_running, connects, bytes_data, pending, todo,
                   overlays, product_name, frame_lock, products, status, started,
                   lock_order>>
    /\ UNCHANGED <<cacheVars, viewerVars, deviceVars, webcamVars>>

\* iter_content is exhausted: the for loop ends and the while loop turns
stream_end ==
    /\ ingPc = "streaming"
    /\ rest = <<>>
    /\ ingPc' = "connecting"
    /\ sent' = <<>>
    /\ emitted' = <<>>
    /\ dropped' = 0
    /\ UNCHANGED <<variant, stream_running, connects, faults, rest, bytes_data,
                   pending, todo, overlays, product_name, current_frame,
                   frame_lock, products, status, started, lock_order>>
    /\ UNCHANGED <<cacheVars, viewerVars, deviceVars, webcamVars>>

\* time.sleep(2) returns
backoff_sleep ==
    /\ ingPc = "backoff"
    /\ ingPc' = "connecting"
    /\ UNCHANGED <<variant, stream_running, connects, faults, sent, rest,
                   bytes_data, emitted, dropped, pending, todo, overlays, product_name,
                   current_frame, frame_lock, products, status, started, lock_order>>
    /\ UNCHANGED <<cacheVars, viewerVars, deviceVars, webcamVars>>

\* a product with this qr_code comes to exist in the inventory
create_product(c, name) ==
    /\ products[c] = Null
    /\ products' = [products EXCEPT ![c] = name]
    /\ UNCHANGED <<variant, frame_lock, status, started, lock_order>>
    /\ UNCHANGED <<ingVars, cacheVars, viewerVars, deviceVars, webcamVars>>

\* the cache when a product is renamed, as it would be if the rename
\* invalidated the entry
on_rename_invalidates(cache, c) == [cache EXCEPT ![c] = Null]

\* update_product and delete_product know nothing of the cache
on_rename(cache, c) == cache

\* PUT /products/{id} with a new name
rename_product(c, name) ==
    /\ products[c] \notin {Null, name}
    /\ products' = [products EXCEPT ![c] = name]
    /\ product_cache' = on_rename(product_cache, c)
    /\ UNCHANGED <<variant, frame_lock, status, started, lock_order, calls, lookups, raised>>
    /\ UNCHANGED <<ingVars, viewerVars, deviceVars, webcamVars>>

\* DELETE /products/{id}
delete_product(c) ==
    /\ products[c] # Null
    /\ products' = [products EXCEPT ![c] = Null]
    /\ UNCHANGED <<variant, frame_lock, status, started, lock_order>>
    /\ UNCHANGED <<ingVars, cacheVars, viewerVars, deviceVars, webcamVars>>

\* GET /clear_cache, video_processor.py only
clear_cache ==
    /\ variant = "standalone"
    /\ product_cache' = [c \in Codes |-> Null]
    /\ UNCHANGED <<variant, frame_lock, products, status, started, lock_order, calls, lookups, raised>>
    /\ UNCHANGED <<ingVars, viewerVars, deviceVars, webcamVars>>

\* what GET /video/status answers but for the camera address
status_reply == [stream_running |-> stream_running,
                 cached_products |-> Cardinality({c \in Codes : product_cache[c] # Null})]

\* GET /video/status, video.py lines 156-158
video_status ==
    /\ variant = "router"
    /\ status' = <<status_reply>>
    /\ UNCHANGED <<variant, frame_lock, products, started, lock_order>>
    /\ UNCHANGED <<ingVars, cacheVars, viewerVars, deviceVars, webcamVars>>

\* ------------------------------------------------------------- viewers
\* generate_frames: `with frame_lock:` is entered
viewer_acquire(v) ==
    /\ vpc[v] = "lock"
    /\ frame_lock = Free
    /\ frame_lock' = ByViewer(v)
    /\ vpc' = [vpc EXCEPT ![v] = "copy"]
    /\ UNCHANGED <<variant, products, status, started, lock_order, clientOpen, vframe, delivered>>
    /\ UNCHANGED <<ingVars, cacheVars, deviceVars, webcamVars>>

\* the lock as a viewer would leave it if it kept it until its chunk is read
release_at_read(v) == ByViewer(v)

\* the `with` block is left when the copy has been taken
release(v) == Free

\* the viewer's frame as it would be if the placeholder were drawn until
\* the first real frame has been handed out, whatever the slot holds
copy_of_late(slot) == Placeholder

\* frame = current_frame.copy() if current_frame is not None, else the
\* placeholder
copy_of(slot) == IF slot = <<>> THEN Placeholder ELSE slot

\* the slot after a viewer's copy, as it would be if the viewer stored the
\* placeholder it has drawn
after_copy_stores(slot) == IF slot = <<>> THEN Placeholder ELSE slot

\* generate_frames reads current_frame and assigns only its local `frame`
after_copy(slot) == slot

\* the body of the `with`: the slot is copied, or the placeholder is drawn
viewer_copy(v) ==
    /\ vpc[v] = "copy"
    /\ vframe' = [vframe EXCEPT ![v] = copy_of(current_frame)]
    /\ current_frame' = after_copy(current_frame)
    /\ frame_lock' = release(v)
    /\ vpc' = [vpc EXCEPT ![v] = "encode"]
    /\ UNCHANGED <<variant, products, status, started, lock_order, clientOpen, delivered>>
    /\ UNCHANGED <<ingPc, stream_running, connects, faults, sent, rest,
                   bytes_data, emitted, dropped, pending, todo, overlays,
                   product_name>>
    /\ UNCHANGED <<cacheVars, deviceVars, webcamVars>>

\* cv2.imencode, and the chunk is yielded to the server
viewer_yield(v) ==
    /\ vpc[v] = "encode"
    /\ vpc' = [vpc EXCEPT ![v] = "yield"]
    /\ UNCHANGED <<variant, frame_lock, products, status, started, lock_order, clientOpen, vframe,
                   delivered>>
    /\ UNCHANGED <<ingVars, cacheVars, deviceVars, webcamVars>>

\* the client takes the chunk; the generator is resumed, sleeps 33 ms and
\* goes round its loop
client_read(v) ==
    /\ vpc[v] = "yield"
    /\ clientOpen[v]
    /\ delivered[v] < MaxDelivered
    /\ delivered' = [delivered EXCEPT ![v] = @ + 1]
    /\ vframe' = [vframe EXCEPT ![v] = <<>>]
    /\ vpc' = [vpc EXCEPT ![v] = "lock"]
    /\ frame_lock' = IF frame_lock = ByViewer(v) THEN Free ELSE frame_lock
       \* a lock this viewer still held would go when its turn of the loop ends
    /\ UNCHANGED <<variant, products, status, started, lock_order, clientOpen>>
    /\ UNCHANGED <<ingVars, cacheVars, deviceVars, webcamVars>>

\* the client goes away
client_close(v) ==
    /\ vpc[v] # "idle"
    /\ clientOpen[v]
    /\ clientOpen' = [clientOpen EXCEPT ![v] = FALSE]
    /\ UNCHANGED <<variant, frame_lock, products, status, started, lock_order, vpc, vframe, delivered>>
    /\ UNCHANGED <<ingVars, cacheVars, deviceVars, webcamVars>>

\* the write of the chunk fails and the server closes the generator
viewer_end(v) ==
    /\ vpc[v] = "yield"
    /\ ~clientOpen[v]
    /\ vpc' = [vpc EXCEPT ![v] = "gone"]
    /\ vframe' = [vframe EXCEPT ![v] = <<>>]
    /\ UNCHANGED <<variant, frame_lock, products, status, started, lock_order, clientOpen, delivered>>
    /\ UNCHANGED <<ingVars, cacheVars, deviceVars, webcamVars>>

\* The ingestor with its lookups; of the viewers only the request that
\* starts the thread.
VideoNext ==
    \/ \E var \in Variants : launch(var)
    \/ video_feed(1)
    \/ ingestor_enter
    \/ \E st \in CameraStreams : connect_stream(st)
    \/ connect_fault
    \/ \E k \in 1..MaxChunk : read_chunk(k)
    \/ \E ok \in BOOLEAN : external_lookup(ok)
    \/ read_fault
    \/ stream_end
    \/ backoff_sleep
    \/ \E c \in StreamCodes, name \in ProductNames : create_product(c, name)
    \/ \E c \in StreamCodes, name \in ProductNames : rename_product(c, name)
    \/ \E c \in StreamCodes : delete_product(c)
    \/ clear_cache

SpecVideo == Init /\ [][VideoNext]_vars

\* The thread is a daemon thread of a running process: a sleep that has
\* begun returns.
SpecVideoFair == Init /\ [][VideoNext]_vars /\ WF_vars(backoff_sleep)

\* The ingestor on responses of one frame that comes in one chunk, next to
\* the viewers and the status endpoint.
ViewersNext ==
    \/ \E var \in Variants : launch(var)
    \/ \E v \in Viewers : video_feed(v)
    \/ ingestor_enter
    \/ \E st \in ViewerStreams : connect_stream(st)
    \/ read_chunk(MaxFrame)
    \/ \E ok \in BOOLEAN : external_lookup(ok)
    \/ stream_end
    \/ \E c \in StreamCodes : create_product(c, "Bolt")
    \/ video_status
    \/ \E v \in Viewers : viewer_acquire(v)
    \/ \E v \in Viewers : viewer_copy(v)
    \/ \E v \in Viewers : viewer_yield(v)
    \/ \E v \in Viewers : client_read(v)
    \/ \E v \in Viewers : client_close(v)
    \/ \E v \in Viewers : viewer_end(v)

SpecViewers == Init /\ [][ViewersNext]_vars

\* A thread that holds a lock is running code that comes to its end: the
\* query of a lookup returns or raises, and a viewer's copy is taken.
SpecViewersFair ==
    /\ Init
    /\ [][ViewersNext]_vars
    /\ WF_vars(\E ok \in BOOLEAN : external_lookup(ok))
    /\ \A v \in Viewers : WF_vars(viewer_copy(v))

\* One viewer next to an ingestor whose connections fail and break.
ReconnectNext ==
    \/ \E var \in Variants : launch(var)
    \/ video_feed(1)
    \/ ingestor_enter
    \/ \E st \in ViewerStreams : connect_stream(st)
    \/ connect_fault
    \/ read_chunk(MaxFrame)
    \/ \E ok \in BOOLEAN : external_lookup(ok)
    \/ read_fault
    \/ stream_end
    \/ backoff_sleep
    \/ viewer_acquire(1)
    \/ viewer_copy(1)
    \/ viewer_yield(1)
    \/ client_read(1)

SpecReconnect == Init /\ [][ReconnectNext]_vars

\* The annotator on frames that show no code, one code or two.
AnnotateNext ==
    \/ \E var \in Variants : launch(var)
    \/ video_feed(1)
    \/ ingestor_enter
    \/ \E st \in AnnotateStreams : connect_stream(st)
    \/ \E k \in 1..MaxChunk : read_chunk(k)
    \/ \E ok \in BOOLEAN : external_lookup(ok)
    \/ stream_end
    \/ \E c \in Codes, name \in ProductNames : create_product(c, name)

SpecAnnotate == Init /\ [][AnnotateNext]_vars

\* =============================================================== webcam
\* A cv2.VideoCapture object is "unused" until a VideoCapture call returns
\* it opened; then it is "open" (reads succeed), "failing" (the device has
\* gone: reads fail, isOpened() is still true), "closed" (the device has gone
\* and isOpened() is false) or "released" (release() was called on it).
isOpened(h) == handle[h] \in {"open", "failing"}

\* get_camera returns c to the generator of v: line 52 before the loops,
\* line 69 inside the streaming loop.  After line 52 a None leads to the
\* loop that yields the "No Camera Found" image; after line 69 the loop
\* goes on with whatever was returned.
get_camera_returns(v, c) ==
    /\ wcam' = [wcam EXCEPT ![v] = c]
    /\ wtmp' = [wtmp EXCEPT ![v] = None]
    /\ wfirst' = [wfirst EXCEPT ![v] = FALSE]
    /\ wpc' = [wpc EXCEPT ![v] = IF c = None /\ wfirst[v] THEN "nocam" ELSE "stream"]

\* GET /video_feed of webcam.py: the server starts to iterate
\* generate_frames, which calls get_camera (line 52).  The server is run
\* with threaded=True, one thread for each request.
webcam_feed(v) ==
    /\ wpc[v] = "idle"
    /\ \A u \in WViewers : u < v => wpc[u] # "idle"
    /\ wpc' = [wpc EXCEPT ![v] = "check"]
    /\ UNCHANGED <<camera, handle, plugged, wcam, wtmp, wfirst>>
    /\ UNCHANGED <<deviceVars, videoVars>>

\* get_camera lines 13-14: the shared camera is returned when it is opened
get_camera_check(v) ==
    /\ wpc[v] = "check"
    /\ IF camera # None /\ isOpened(camera)
       THEN get_camera_returns(v, camera)
       ELSE /\ wpc' = [wpc EXCEPT ![v] = "trying"]
            /\ UNCHANGED <<wcam, wtmp, wfirst>>
    /\ UNCHANGED <<camera, handle, plugged>>
    /\ UNCHANGED <<deviceVars, videoVars>>

\* lines 23-24 and 37-38: one of the VideoCapture calls comes up opened.
\* Whether a call succeeds while another object is open depends on the
\* backend and on how many cameras there are: both outcomes are possible.
get_camera_open(v) ==
    /\ wpc[v] = "trying"
    /\ plugged
    /\ \E h \in Handles :
          /\ handle[h] = "unused"
          /\ \A g \in Handles : g < h => handle[g] # "unused"
          /\ handle' = [handle EXCEPT ![h] = "open"]
          /\ wtmp' = [wtmp EXCEPT ![v] = h]
    /\ wpc' = [wpc EXCEPT ![v] = "test"]
    /\ UNCHANGED <<camera, plugged, wcam, wfirst>>
    /\ UNCHANGED <<deviceVars, videoVars>>

\* lines 25-32 and 39-44: the first read of the object just opened.  When it
\* gives a frame the object becomes the shared camera and is returned;
\* otherwise it is released and the loops go on.
get_camera_test(v) ==
    /\ wpc[v] = "test"
    /\ IF handle[wtmp[v]] = "open"
       THEN /\ camera' = wtmp[v]
            /\ get_camera_returns(v, wtmp[v])
            /\ UNCHANGED handle
       ELSE /\ handle' = [handle EXCEPT ![wtmp[v]] = "released"]
            /\ wtmp' = [wtmp EXCEPT ![v] = None]
            /\ wpc' = [wpc EXCEPT ![v] = "trying"]
            /\ UNCHANGED <<camera, wcam, wfirst>>
    /\ UNCHANGED plugged
    /\ UNCHANGED <<deviceVars, videoVars>>

\* lines 46-47: none of the calls that were left came up opened, because
\* there is no device or because it is in use
get_camera_none(v) ==
    /\ wpc[v] = "trying"
    /\ ~plugged \/ \E h \in Handles : handle[h] = "open"
    /\ get_camera_returns(v, None)
    /\ UNCHANGED <<camera, handle, plugged>>
    /\ UNCHANGED <<deviceVars, videoVars>>

\* One turn of the streaming loop, lines 67-75: cam.read(); on a frame the
\* chunk is yielded, on a failure get_camera is called again (line 69).
\* With cam = None, cam.read() raises AttributeError, which nothing in the
\* generator catches.
webcam_read(v) ==
    /\ wpc[v] = "stream"
    /\ IF wcam[v] = None
       THEN wpc' = [wpc EXCEPT ![v] = "raised"]
       ELSE IF handle[wcam[v]] = "open"
            THEN UNCHANGED wpc
            ELSE wpc' = [wpc EXCEPT ![v] = "check"]
    /\ UNCHANGED <<camera, handle, plugged, wcam, wtmp, wfirst>>
    /\ UNCHANGED <<deviceVars, videoVars>>

\* The camera is unplugged or taken by another program: the reads of every
\* open object fail from now on; whether isOpened() still answers true is
\* the backend's choice.
unplug(closes) ==
    /\ plugged
    /\ plugged' = FALSE
    /\ handle' = [h \in Handles |->
                    IF handle[h] = "open"
                    THEN (IF closes THEN "closed" ELSE "failing")
                    ELSE handle[h]]
    /\ UNCHANGED <<camera, wpc, wcam, wtmp, wfirst>>
    /\ UNCHANGED <<deviceVars, videoVars>>

\* a camera is there again
replug ==
    /\ ~plugged
    /\ plugged' = TRUE
    /\ UNCHANGED <<camera, handle, wpc, wcam, wtmp, wfirst>>
    /\ UNCHANGED <<deviceVars, videoVars>>

WebcamNext ==
    \/ \E v \in WViewers : webcam_feed(v)
    \/ \E v \in WViewers : get_camera_check(v)
    \/ \E v \in WViewers : get_camera_open(v)
    \/ \E v \in WViewers : get_camera_test(v)
    \/ \E v \in WViewers : get_camera_none(v)
    \/ \E v \in WViewers : webcam_read(v)
    \/ \E closes \in BOOLEAN : unplug(closes)
    \/ replug

SpecWebcam == Init /\ [][WebcamNext]_vars

\* ================================================================ claims
\* a step of POST /command that is not a stuttering step
DispatchStep == response' # response \/ cmds' # cmds

\* the handler of s leaves its read loop in this step
TerminationStep(s) == pc[s] = "recv" /\ pc'[s] # "recv"

\* the handler of s installs its socket and enters its read loop in this step
EstablishmentStep(s) == pc[s] = "accepting" /\ pc'[s] = "recv"

\* C1: after register(id, c1) then register(id, c2), the later termination
\* of c1's read loop neither removes c2's entry from the connection map nor
\* changes the device's online flag while c2 is still open.
C1_SupersededExitLeavesNewer ==
    [][\A c1, c2 \in Sockets :
         ( /\ c1 # c2
           /\ wsDev[c1] = wsDev[c2]
           /\ lastRegistered[wsDev[c2]] = c2
           /\ pc[c2] = "recv"
           /\ TerminationStep(c1) )
         => /\ active_connections'[wsDev[c2]] = c2
            /\ devices'[wsDev[c2]].is_online = devices[wsDev[c2]].is_online]_vars

\* C2: when a socket is installed for an identifier that already has another
\* socket in the map, the code has closed the prior socket exactly once by
\* the time the new one is installed.
C2_PriorClosedOnReplace ==
    [][\A s \in Sockets :
         ( /\ pc[s] = "accepting"
           /\ active_connections'[wsDev[s]] = s
           /\ active_connections[wsDev[s]] \notin {None, s} )
         => closeCalls'[active_connections[wsDev[s]]] = 1]_vars

\* C3: a command sent to an identifier is written only to the socket most
\* recently registered for that identifier, never to a superseded one.
C3_CommandOnlyToLatest ==
    [][DispatchStep =>
         /\ \A s \in Sockets :
              cmds'[s] # cmds[s] => s = lastRegistered[response'.dev]
         /\ response'.sock # None
              => response'.sock = lastRegistered[response'.dev]]_vars

\* C3 witness: a command has been written to the second socket registered
\* for a device while the first, superseded one is still in its read loop.
C3_Witness ==
    \E s, t \in Sockets :
        /\ s # t
        /\ wsDev[s] = wsDev[t]
        /\ pc[t] = "recv"
        /\ pc[s] = "recv"
        /\ lastRegistered[wsDev[s]] = s
        /\ cmds[s] = 1
        /\ cmds[t] = 0

\* C4: once deregisterDevice(id) has completed, the connection map holds no
\* entry for id (isOnline(id) is false).
C4_DeregisterTearsDown ==
    [][\A d \in DeviceIds :
         (Registered(d) /\ ~(devices'[d].pk # None))
         => active_connections'[d] = None]_vars

\* C5: dispatch to an identifier not in the registry reports "device
\* unknown" and dispatch to a registered identifier with no connection
\* reports "device not connected"; neither writes to a socket; the registry
\* is consulted before the connection map.
C5_DispatchErrorOutcomes ==
    [][DispatchStep =>
         LET d == response'.dev IN
         /\ ~Registered(d)
              => /\ response'.res = "http_404"
                 /\ response'.sock = None
                 /\ cmds' = cmds
         /\ (Registered(d) /\ ~is_connected(d))
              => /\ response'.res = "not_connected"
                 /\ response'.sock = None
                 /\ cmds' = cmds]_vars

\* C5 witness: "device unknown" was reported for an identifier that is not
\* registered although a socket for it is still in the connection map.
C5_Witness ==
    /\ response.res = "http_404"
    /\ ~Registered(response.dev)
    /\ is_connected(response.dev)

\* C6: no dispatch ends with an exception escaping the endpoint; every call
\* returns a result.  (The 404 answer to an unknown identifier, raised as an
\* HTTPException, is not counted as escaping here.)
C6_DispatchNeverRaises ==
    response.res # "raised"

\* C7: a dispatch performs at most one transport write and leaves the
\* device rows (online flag, last-seen) and the connection map unchanged.
C7_DispatchFrame ==
    [][DispatchStep =>
         /\ devices' = devices
         /\ active_connections' = active_connections
         /\ \A s \in Sockets : cmds'[s] \in {cmds[s], cmds[s] + 1}
         /\ Cardinality({s \in Sockets : cmds'[s] # cmds[s]}) <= 1]_vars

\* C7 witness: a dispatch whose write raised, on a device that is still
\* stored online with its socket still in the map.
C7_Witness ==
    /\ response.res = "raised"
    /\ cmds[response.sock] = 1
    /\ active_connections[response.dev] = response.sock
    /\ devices[response.dev].is_online

\* C8: every heartbeat received on a connection is answered with exactly
\* one heartbeat_ack on that connection, and the device's last-seen becomes
\* the current time.
C8_HeartbeatAcked ==
    [][\A s \in Sockets :
         heartbeats'[s] # heartbeats[s]
         => /\ acks'[s] = acks[s] + 1
            /\ \A t \in Sockets \ {s} : acks'[t] = acks[t]
            /\ devices'[wsDev[s]].last_seen = now]_vars

\* C9: on establishment the device is stored online with last-seen set to
\* that instant; on termination by any cause it is stored offline with
\* last-seen set to the termination instant.  (Stated for handlers whose
\* device row still exists.)
C9_OnlineFollowsConnection ==
    [][\A s \in Sockets :
         /\ EstablishmentStep(s)
              => /\ devices'[wsDev[s]].is_online
                 /\ devices'[wsDev[s]].last_seen = now
         /\ (TerminationStep(s) /\ RowExists(s))
              => /\ ~devices'[wsDev[s]].is_online
                 /\ devices'[wsDev[s]].last_seen = now]_vars

\* the only socket ever opened for its device, rejected attempts aside
Sole(s) ==
    \A t \in Sockets \ {s} :
        pc[t] \in {"idle", "rejected"} \/ wsDev[t] # wsDev[s]

\* C10: for a device with a single connection, isOnline(id) is true from
\* the completed handshake for as long as the read loop runs, heartbeats
\* included, and false once the close has been handled.
C10_OnlineWhileOpen ==
    \A s \in Sockets :
        Sole(s) =>
            /\ pc[s] = "recv" => active_connections[wsDev[s]] = s
            /\ pc[s] = "done" => ~is_connected(wsDev[s])

\* C10 witness: a sole connection that acknowledged a heartbeat and whose
\* close has been handled.
C10_Witness ==
    \E s \in Sockets :
        /\ Sole(s)
        /\ pc[s] = "done"
        /\ acks[s] = 1
        /\ Registered(wsDev[s])
        /\ ~is_connected(wsDev[s])

\* the handler of s reads a heartbeat in this step
HeartbeatStep(s) == pc[s] = "recv" /\ heartbeats'[s] = heartbeats[s] + 1

\* the handler of s reads a frame of an unhandled type in this step
IgnoredStep(s) ==
    /\ pc[s] = "recv"
    /\ inbox'[s] < inbox[s]
    /\ heartbeats'[s] = heartbeats[s]
    /\ malformed'[s] = malformed[s]

\* the handler of s reads a malformed frame in this step
MalformedStep(s) == pc[s] = "recv" /\ malformed'[s] = malformed[s] + 1

\* the row of d is neither created nor deleted in this step
SameRow(d) == Registered(d) /\ devices'[d].pk = devices[d].pk

\* C11: the stored online flag and last-seen time of a device's row change
\* only in a step in which a handler of that device establishes its
\* connection, reads a heartbeat or terminates; the registry's register,
\* list, get and update operations never change them.
C11_LivenessWriters ==
    [][\A d \in DeviceIds :
         ( /\ SameRow(d)
           /\ \/ devices'[d].is_online # devices[d].is_online
              \/ devices'[d].last_seen # devices[d].last_seen )
         => \E s \in Sockets :
               /\ wsDev[s] = d
               /\ \/ EstablishmentStep(s)
                  \/ HeartbeatStep(s)
                  \/ TerminationStep(s)]_vars

\* C11 witness: a row that an update request has relabelled is stored online
\* with a last-seen time, its device connected.
C11_Witness ==
    \E d \in DeviceIds :
        /\ devices[d].name \in NewNames
        /\ devices[d].is_online
        /\ devices[d].last_seen # None
        /\ is_connected(d)

\* C12: reading a scan_result, a sensor_data or a message of an unrecognized
\* type leaves the read loop running, the connection map and the stored
\* rows as they were, and sends no reply.
C12_IgnoredLeavesAll ==
    [][\A s \in Sockets :
         IgnoredStep(s)
         => /\ pc'[s] = "recv"
            /\ active_connections' = active_connections
            /\ devices' = devices
            /\ acks' = acks
            /\ cmds' = cmds]_vars

\* C12 witness: a handler that has read an ignored frame is still in its
\* loop, its socket in the map and its device stored online, with no reply
\* sent.
C12_Witness ==
    \E s \in Sockets :
        /\ pc[s] = "recv"
        /\ ignored[s] = 1
        /\ active_connections[wsDev[s]] = s
        /\ devices[wsDev[s]].is_online
        /\ acks[s] = 0

\* C13, as stated: a malformed inbound message is dropped and the read loop
\* continues, the connection stays in the map and the device stays online.
C13_MalformedDropped ==
    [][\A s \in Sockets :
         MalformedStep(s)
         => /\ pc'[s] = "recv"
            /\ active_connections' = active_connections
            /\ devices' = devices]_vars

\* C13, amended: a malformed inbound message ends the read loop of its
\* connection and removes the map entry of its identifier; no later
\* heartbeat on that connection is read or acknowledged.
C13_MalformedEndsLoop ==
    [][\A s \in Sockets :
         /\ MalformedStep(s)
            => /\ pc'[s] # "recv"
               /\ active_connections'[wsDev[s]] = None
               /\ acks' = acks
         /\ malformed[s] > 0
            => /\ pc'[s] # "recv"
               /\ heartbeats'[s] = heartbeats[s]
               /\ acks'[s] = acks[s]]_vars

\* C13 witness: a handler ended by a malformed frame, its identifier absent
\* from the map and its device stored offline.
C13_Witness ==
    \E s \in Sockets :
        /\ malformed[s] = 1
        /\ pc[s] = "done"
        /\ Registered(wsDev[s])
        /\ ~is_connected(wsDev[s])
        /\ ~devices[wsDev[s]].is_online

\* C14: an abnormal closure or a malformed payload ends the read loop with
\* the connection removed from the map and the device marked offline, and
\* no exception escapes the handler.
C14_FaultEndsLoopQuietly ==
    [][\A s \in Sockets :
         (TerminationStep(s) /\ ~HeartbeatStep(s))
         => /\ pc'[s] = "done"
            /\ active_connections'[wsDev[s]] = None
            /\ ~devices'[wsDev[s]].is_online]_vars

\* C15: unregister(deviceId) on an identifier absent from the map changes
\* nothing, twice equals once, the identifier is absent afterwards and no
\* other identifier's entry is removed; a terminating handler changes the
\* map in exactly this way.
C15_UnregisterIdempotent ==
    [][/\ \A d \in DeviceIds :
            LET once == disconnect(active_connections, d)
            IN  /\ active_connections[d] = None => once = active_connections
                /\ disconnect(once, d) = once
                /\ once[d] = None
                /\ \A e \in DeviceIds \ {d} : once[e] = active_connections[e]
       /\ \A s \in Sockets :
            TerminationStep(s)
            => /\ active_connections[wsDev[s]] = None
                  => active_connections' = active_connections
               /\ \A e \in DeviceIds \ {wsDev[s]} :
                     active_connections'[e] = active_connections[e]]_vars

\* C15 witness: two handlers of one identifier have both terminated, so the
\* second unregister found the identifier absent.
C15_Witness ==
    \E s, t \in Sockets :
        /\ s # t
        /\ wsDev[s] = wsDev[t]
        /\ pc[s] = "done"
        /\ pc[t] = "done"
        /\ active_connections[wsDev[s]] = None

\* ------------------------------------------------------ video pipeline
\* the text the latest lookup returned, which process_frame draws
Label == product_name

\* a lookup for c starts in this step
LookupStep(c) == calls'[c] = calls[c] + 1

\* the database or the API is queried for c in this step
QueryStep(c) == lookups'[c] = lookups[c] + 1

\* the query of this step finds a product
FoundStep(c) == QueryStep(c) /\ ~raised' /\ products[c] # Null

\* C16: the ingestor thread never ends and never lets an exception out of
\* its loop; after a fault it sleeps and then tries to connect again.
C16_IngestorSurvives ==
    /\ [](ingPc # "dead")
    /\ (ingPc = "backoff") ~> (ingPc = "connecting")

\* C16 witness: after a fault the thread has connected again and is reading.
C16_Witness ==
    /\ faults = 1
    /\ connects = 2
    /\ ingPc = "streaming"

\* C17: once a response that holds exactly two well-formed frames has been
\* read to its end, in whatever chunks, exactly those two frames have been
\* emitted, in order and byte for byte.
C17_TwoFramesEmitted ==
    ( /\ ingPc = "streaming"
      /\ Len(sent) = 2
      /\ rest = <<>> )
    => emitted = sent

\* C18: the reassembly buffer never grows beyond a fixed cap.
C18_BufferCapped == Len(bytes_data) <= BufferCap

\* C19, as stated: two lookups with the same code query the database or the
\* API at most once.
C19_TwoLookupsOneQuery ==
    \A c \in Codes : (calls[c] = 2 /\ ingPc # "lookup") => lookups[c] <= 1

\* C19, amended: a lookup whose code is in the cache makes no query and
\* labels the frame with the cached name, and a query is made only for a
\* code the cache does not hold; so the second of two lookups makes no query
\* when the first found a product and the cache was not cleared in between.
\* After a lookup that found a product the cache maps the code to its name.
C19_CachedLookupSkipsQuery ==
    [][\A c \in Codes :
         /\ QueryStep(c) => product_cache[c] = Null
         /\ (LookupStep(c) /\ product_cache[c] # Null)
            => /\ lookups' = lookups
               /\ ingPc' = ingPc
               /\ Label' = product_cache[c]
         /\ FoundStep(c) => product_cache'[c] = products[c]]_vars

\* C19 witness: two lookups of one code, the first of which found the
\* product, with one query made and the name in the cache.
C19_Witness ==
    \E c \in Codes :
        /\ calls[c] = 2
        /\ lookups[c] = 1
        /\ ingPc = "streaming"
        /\ product_cache[c] \in ProductNames
        /\ Label = product_cache[c]

\* C20: a lookup that finds no product leaves the cache as it was; the next
\* lookup for that code queries again, and when the product exists by then
\* it labels the frame with the product's name and caches it.
C20_MissNotCached ==
    [][\A c \in Codes :
         /\ (QueryStep(c) /\ ~FoundStep(c))
            => /\ product_cache' = product_cache
               /\ Label' = c
         /\ (LookupStep(c) /\ lookups[c] > 0 /\ product_cache'[c] = Null)
            => /\ ingPc' = "lookup"
               /\ pending' # <<>>
         /\ (FoundStep(c) /\ lookups[c] > 0)
            => /\ product_cache'[c] = products[c]
               /\ Label' = products[c]]_vars

\* C20 witness: the first lookup missed, the product was created, and the
\* second lookup queried again and cached the name.
C20_Witness ==
    \E c \in Codes :
        /\ calls[c] = 2
        /\ lookups[c] = 2
        /\ ~raised
        /\ product_cache[c] \in ProductNames
        /\ Label = product_cache[c]

\* GET /clear_cache is served in this step: the standalone processor's cache
\* is emptied and nothing else of the pipeline moves
ClearStep ==
    /\ variant = "standalone"
    /\ product_cache' = [c \in Codes |-> Null]
    /\ products' = products
    /\ ingVars' = ingVars

C22_MissReturnsCode ==
    [][\A c \in Codes :
         (QueryStep(c) /\ ~FoundStep(c))
         => /\ product_name' = c
            /\ faults' = faults
            /\ ingPc' \in {"streaming", "lookup"}]_vars

\* C22 witness: the query for a code whose product exists has raised, and
\* the frame was published with the code as its text.
C22_Witness ==
    \E c \in Codes :
        /\ raised
        /\ products[c] # Null
        /\ product_name = c
        /\ ingPc = "streaming"
        /\ current_frame # <<>>
        /\ current_frame[2] = <<c>>

\* the thread takes a chunk from the response in this step
ReadStep == ingPc = "streaming" /\ faults' = faults /\ Len(rest') < Len(rest)

\* the buffer of that step once the chunk is appended
Arrived == bytes_data \o SubSeq(rest, 1, Len(rest) - Len(rest'))

\* where the first end marker after the first start marker of buf ends, and
\* 0 when buf holds no start marker with an end marker after it
FrameEnd(buf) ==
    LET ends == {j \in 1..(Len(buf) - 1) :
                    /\ find(buf, SOI) # 0
                    /\ j > find(buf, SOI)
                    /\ buf[j] = EOI[1]
                    /\ buf[j + 1] = EOI[2]}
    IN  IF ends = {} THEN 0
        ELSE 1 + CHOOSE j \in ends : \A i \in ends : j <= i

\* C26: whenever the buffer holds a start marker with an end marker after
\* it, the bytes up to the end of the first end marker that follows the
\* first start marker are taken out and the remainder is kept.
C26_MarkerPairExtracted ==
    [][(ReadStep /\ FrameEnd(Arrived) # 0)
       => bytes_data' = SubSeq(Arrived, FrameEnd(Arrived) + 1, Len(Arrived))]_vars

\* the connection state of the ingestor
ConnState ==
    CASE ingPc = "connecting" -> "CONNECTING"
      [] ingPc \in {"streaming", "lookup"} -> "STREAMING"
      [] ingPc = "backoff" -> "BACKOFF"
      [] OTHER -> "NOT RUNNING"

\* C27: the ingestor's connection state changes only from CONNECTING to
\* STREAMING, from STREAMING to BACKOFF and from BACKOFF to CONNECTING; a
\* failure to open the stream, which the specification also sends through
\* the backoff sleep, is let pass here.  In particular STREAMING is never
\* followed by CONNECTING.
C27_OnlyThroughBackoff ==
    [][(ConnState # "NOT RUNNING" /\ ConnState' # ConnState)
       => <<ConnState, ConnState'>> \in
             {<<"CONNECTING", "STREAMING">>, <<"STREAMING", "BACKOFF">>,
              <<"BACKOFF", "CONNECTING">>, <<"CONNECTING", "BACKOFF">>}]_vars

\* a frame is cut out of the buffer in this step and does not decode
DropStep == ReadStep /\ dropped' = dropped + 1

\* C28, first half: when the bytes cut out do not decode, they leave the
\* buffer, nothing is published, the slot keeps its content and the thread
\* stays in its chunk loop.
C28_UndecodableDropped ==
    [][DropStep
       => /\ bytes_data' = SubSeq(Arrived, FrameEnd(Arrived) + 1, Len(Arrived))
          /\ current_frame' = current_frame
          /\ emitted' = emitted
          /\ ingPc' = "streaming"]_vars

\* C28: the first half, and the well-formed frame that follows bytes that
\* did not decode is published: once the response has been read to its end
\* every well-formed frame in it has been emitted.
C28_NextFrameStillPublished ==
    /\ C28_UndecodableDropped
    /\ []( ( /\ ingPc = "streaming"
             /\ rest = <<>>
             /\ dropped > 0 )
           => emitted = sent )

\* ------------------------------------------------------------- viewers
\* the viewer is not running a turn of its loop: its chunk waits for a
\* client that does not read, or its generator has been closed
Halted(v) == vpc[v] \in {"yield", "gone"}

\* the generator of v is closed in this step
DisconnectStep(v) == vpc[v] # "gone" /\ vpc'[v] = "gone"

\* C23: a viewer whose client has stalled or gone holds nothing the others
\* need, so the ingestor can publish and every other viewer can take its
\* copy; and the end of one viewer's loop, like the going of its client,
\* changes nothing of the ingestor, of the lock or of another viewer.
C23_ViewersIndependent ==
    /\ [](\A v \in Viewers : Halted(v) => frame_lock # ByViewer(v))
    /\ [][\A v \in Viewers :
            (DisconnectStep(v) \/ clientOpen'[v] # clientOpen[v])
            => /\ ingVars' = ingVars
               /\ frame_lock' = frame_lock
               /\ \A u \in Viewers \ {v} :
                     /\ vpc'[u] = vpc[u]
                     /\ clientOpen'[u] = clientOpen[u]
                     /\ vframe'[u] = vframe[u]
                     /\ delivered'[u] = delivered[u]]_vars

\* C23 witness: the first viewer took the placeholder before any frame was
\* published and its client has never read; since then the ingestor has
\* published a frame and the second viewer, one chunk delivered, has copied
\* that frame for its next chunk.
C23_Witness ==
    /\ vpc[1] = "yield"
    /\ clientOpen[1]
    /\ delivered[1] = 0
    /\ vframe[1] = Placeholder
    /\ current_frame # <<>>
    /\ vpc[2] = "yield"
    /\ delivered[2] = 1
    /\ vframe[2] = current_frame

\* GET /video/status is answered in this step
StatusStep == status' # status

\* C24: the status endpoint changes nothing of the cache, the slot and the
\* ingestor, and the running flag it reports is true exactly when a thread
\* of the ingestor has been started and has not ended.
C24_StatusReportsRunning ==
    [][StatusStep
       => /\ product_cache' = product_cache
          /\ current_frame' = current_frame
          /\ ingVars' = ingVars
          /\ status'[1].stream_running = (ingPc \notin {"unstarted", "dead"})]_vars

\* C29: the slot changes only in a step of the ingestor, and then it holds
\* the frame decoded last, with one text for each code the detector gave;
\* a step of a viewer leaves it as it is.
C29_SlotWrittenByIngestor ==
    [][/\ current_frame' # current_frame
          => /\ ingPc \in {"streaming", "lookup"}
             /\ viewerVars' = viewerVars
             /\ emitted' # <<>>
             /\ current_frame'[1] = emitted'[Len(emitted')]
             /\ Len(current_frame'[2]) = Len(detect(variant, current_frame'[1]))
       /\ viewerVars' # viewerVars => current_frame' = current_frame]_vars

\* C29 witness: a second frame has been published over the first, of which
\* a viewer still has its copy.
C29_Witness ==
    /\ connects = 2
    /\ emitted # <<>>
    /\ current_frame # <<>>
    /\ current_frame[1] = emitted[Len(emitted)]
    /\ \E v \in Viewers : vframe[v] \notin {<<>>, Placeholder, current_frame}

\* C30: frame_lock is held for the swap or the copy only: not by the
\* ingestor while a product lookup of its annotator is outstanding, not by a
\* viewer that is encoding or handing out its chunk.
C30_LockOnlyForSwap ==
    /\ frame_lock = ByIngestor => ingPc # "lookup"
    /\ \A v \in Viewers :
          vpc[v] \in {"encode", "yield"} => frame_lock # ByViewer(v)

\* ----------------------------------------------------------- annotator
\* a frame is decoded and handed to process_frame in this step
DecodeStep == Len(emitted') = Len(emitted) + 1

\* C25: process_frame makes one lookup and draws one text for each code its
\* detector reports.  A frame without a code is published as it is, without
\* a lookup; a published frame carries as many texts as it has detected
\* codes, each the cached name or else the code itself; and while a frame
\* is being annotated every one of its codes is either drawn or still to
\* be looked up.
C25_OneOverlayPerCode ==
    /\ [][/\ (DecodeStep /\ detect(variant, emitted'[Len(emitted')]) = <<>>)
             => /\ current_frame' = <<emitted'[Len(emitted')], <<>>>>
                /\ calls' = calls
                /\ lookups' = lookups
          /\ current_frame' # current_frame
             => LET cs == detect(variant, current_frame'[1])
                IN  /\ Len(current_frame'[2]) = Len(cs)
                    /\ \A i \in 1..Len(cs) :
                          current_frame'[2][i] \in {cs[i], product_cache'[cs[i]]}]_vars
    /\ [](ingPc = "lookup"
          => Len(overlays) + Len(todo) = Len(detect(variant, pending)))

\* C25 witness: a frame that shows two codes has been published with two
\* texts, the name of the product of the first code and, no product having
\* the second code, the second code itself.
C25_Witness ==
    /\ current_frame # <<>>
    /\ codes_shown(current_frame[1]) = <<"PROD-1", "PROD-2">>
    /\ Len(current_frame[2]) = 2
    /\ current_frame[2][1] \in ProductNames
    /\ current_frame[2][2] = "PROD-2"
    /\ calls = [c \in Codes |-> 1]

\* ------------------------------------------------ devices, continued
\* the handler of s runs its registry query in this step
OpenStep(s) == pc[s] = "idle" /\ pc'[s] # "idle"

\* C33: a connection attempt for an identifier that has no row is closed,
\* once, without being accepted: the handler ends there, the connection map
\* and the device table are left as they are, and the socket is never in the
\* map.
C33_UnregisteredRejected ==
    /\ [][\A s \in Sockets :
            (OpenStep(s) /\ ~Registered(wsDev'[s]))
            => /\ pc'[s] = "rejected"
               /\ closeCalls'[s] = closeCalls[s] + 1
               /\ active_connections' = active_connections
               /\ devices' = devices
               /\ nextPk' = nextPk]_vars
    /\ [](\A s \in Sockets :
            pc[s] = "rejected" => \A d \in DeviceIds : active_connections[d] # s)

\* C33 witness: an attempt for an identifier without a row has been
\* rejected while another device is connected; the identifier is not in the
\* map and has no row.
C33_Witness ==
    \E s, t \in Sockets :
        /\ pc[s] = "rejected"
        /\ ~Registered(wsDev[s])
        /\ ~is_connected(wsDev[s])
        /\ closeCalls[s] = 1
        /\ pc[t] = "recv"

\* C34: when a handler has installed its socket, or has left its read loop,
\* and the device still has its row, the stored online flag says whether the
\* connection map has an entry for the identifier.
C34_FlagEqualsMembership ==
    [][\A s \in Sockets :
         ( /\ EstablishmentStep(s) \/ TerminationStep(s)
           /\ Registered(wsDev[s])' )
         => devices'[wsDev[s]].is_online = (active_connections'[wsDev[s]] # None)]_vars

\* ------------------------------------------------- viewers, continued
\* the viewer takes its copy in this step
CopyStep(v) == vpc[v] = "copy" /\ vpc'[v] # "copy"

\* the client takes the viewer's chunk in this step
ChunkStep(v) == delivered'[v] = delivered[v] + 1

\* C31: in each turn of a viewer's loop the frame it copies is the
\* placeholder when the slot is empty and the content of the slot at that
\* instant otherwise; that frame is what the turn hands out, one chunk, after
\* which the viewer sleeps and starts its next turn; and the slot is empty
\* only as long as nothing has been published into it.
C31_PlaceholderOrCopy ==
    /\ [][\A v \in Viewers :
            /\ CopyStep(v)
               => /\ current_frame = <<>> => vframe'[v] = Placeholder
                  /\ current_frame # <<>> => vframe'[v] = current_frame
            /\ (vpc[v] \in {"encode", "yield"} /\ ~ChunkStep(v) /\ vpc'[v] # "gone")
               => vframe'[v] = vframe[v]
            /\ ChunkStep(v)
               => /\ vpc[v] = "yield"
                  /\ vframe[v] # <<>>
                  /\ vpc'[v] = "lock"
            /\ current_frame # <<>> => current_frame' # <<>>]_vars
    /\ [](\A v \in Viewers : vpc[v] \in {"encode", "yield"} => vframe[v] # <<>>)

\* C31 witness: the first viewer has handed out one chunk and copied the
\* placeholder again for its next, the slot being empty then; by now a frame
\* has been published, and the second viewer has copied that frame for its
\* first chunk.
C31_Witness ==
    /\ vpc[1] = "yield"
    /\ delivered[1] = 1
    /\ vframe[1] = Placeholder
    /\ vpc[2] = "yield"
    /\ delivered[2] = 0
    /\ current_frame # <<>>
    /\ vframe[2] = current_frame

\* C32: whatever the requests for the feed, no second thread of the
\* ingestor is started while one is alive: a thread is started only when
\* none was started before or the one started has ended, and, a thread never
\* ending, at most one is started.
C32_OneIngestorThread ==
    /\ [][started' # started
          => /\ started' = started + 1
             /\ ingPc \in {"unstarted", "dead"}
             /\ ingPc' = "started"]_vars
    /\ [](started <= 1)
    /\ [](started = 0 <=> ingPc = "unstarted")

\* C32 witness: in the router two requests for the feed have been served
\* and the one thread started by the first is reading the stream.
C32_Witness ==
    /\ variant = "router"
    /\ \A v \in Viewers : vpc[v] # "idle"
    /\ started = 1
    /\ ingPc = "streaming"
    /\ stream_running

C36_SlotStaysPopulated ==
    [][/\ current_frame # <<>> => current_frame' # <<>>
       /\ \A v \in Viewers :
             (CopyStep(v) /\ current_frame # <<>>) => vframe'[v] # Placeholder]_vars

\* C36 witness: the connection has broken after a frame was published and
\* the thread is in its backoff sleep; the viewer, one chunk handed out, has
\* copied the published frame for its next.
C36_Witness ==
    /\ faults = 1
    /\ ingPc = "backoff"
    /\ emitted = <<>>
    /\ current_frame # <<>>
    /\ vpc[1] = "yield"
    /\ delivered[1] = 1
    /\ vframe[1] = current_frame

\* the reassembly buffer followed by what the response has still to give
\* is the tail of one response of the camera
OneResponse ==
    \E st \in CameraStreams :
        LET all == bytes_data \o rest
        IN  /\ Len(all) <= Len(st.bytes)
            /\ all = SubSeq(st.bytes, Len(st.bytes) - Len(all) + 1, Len(st.bytes))

\* C37: every connection starts with an empty buffer, so the buffer only
\* ever holds bytes of the open response, and every frame cut out of it
\* lies within that one response.
C37_BufferPerConnection ==
    /\ [][connects' # connects /\ ingPc' = "streaming" => bytes_data' = <<>>]_vars
    /\ [](ingPc \in {"streaming", "lookup"} => OneResponse)

\* C37 witness: a first response has been read to its end, and the thread,
\* connected again, has cut a frame out of the second response and keeps
\* bytes of that response in its buffer.
C37_Witness ==
    /\ connects = 2
    /\ faults = 0
    /\ ingPc = "streaming"
    /\ Len(emitted) = 1
    /\ emitted[1] = sent[1]
    /\ bytes_data # <<>>

\* --------------------------------------------------------------- webcam
\* the objects that are opened and have not been released
Unreleased == {h \in Handles : isOpened(h)}

\* no generator is inside get_camera
NoCallOpen == \A v \in WViewers : wpc[v] \notin {"check", "trying", "test"}

\* C38: when no call of get_camera is under way, at most one object that it
\* opened is left unreleased, and that one is the shared camera.
C38_OneHandleRetained ==
    NoCallOpen => /\ Cardinality(Unreleased) <= 1
                  /\ Unreleased \subseteq {camera}

\* C39: a generator that has reached its streaming loop never ends on a
\* failed read, whether a camera can be opened again or not.
C39_ViewerSurvivesReadFailure ==
    \A v \in WViewers : wpc[v] # "raised"
====
